---- MODULE Spec2Model ----
(***************************************************************************)
(* Model of pymor's time-frequency inference (std_lib/dataset_helpers.py),  *)
(* the resampling safety gate behind the unified accessors (accessors.py)   *)
(* and the time-bounds generator (std_lib/time_bounds.py).                  *)
(*                                                                         *)
(* Time is measured in ticks of half an hour (TicksPerDay ticks per day),   *)
(* so every length the code uses (1/24 day, 365.25/12 days, ...) is an      *)
(* integer.  Real-number comparisons of the code are carried out exactly    *)
(* on integers by cross-multiplication.                                     *)
(***************************************************************************)
EXTENDS Integers, Sequences, FiniteSets, TLC

VARIABLES
    obj,       \* the data at hand: a time series, or a dataset
    call,      \* the operation invoked on it, with its arguments
    ret,       \* what that invocation returned or raised
    ordinals,  \* the ordinal array the invocation computed (<<>> if none)
    resampled  \* number of invocations of the external resample operation

vars == <<obj, call, ret, ordinals, resampled>>

\* The Python value None where a string is expected, and where a number is:
\* an optional number is the empty tuple or the one-tuple of the number.
None == "None"
NoNumber == <<>>
Number(v) == <<v>>

\* The outcome of an invocation: a returned value or a raised error.
Returned(v) == [kind |-> "returned", value |-> v, message |-> ""]
Raised(msg) == [kind |-> "raised", value |-> None, message |-> msg]

\* ------------------------------------------------------------------------
\* Bounds of the model
\* ------------------------------------------------------------------------

\* Longest time series passed to an operation.
MaxLen == 5

\* ------------------------------------------------------------------------
\* Time arithmetic
\* ------------------------------------------------------------------------

\* Ticks per day: the denominators 24 and 1440 of the fraction of a day.
TicksPerDay == 24 * 2

Abs(x) == IF x < 0 THEN -x ELSE x

\* A timestamp: the fields the code reads from a date object.
Date(y, m, d, h, mi) ==
    [year |-> y, month |-> m, day |-> d, hour |-> h, minute |-> mi, second |-> 0]

\* t.hour / 24 + t.minute / 1440 + t.second / 86400, in ticks.
DayFraction(t) ==
    (t.hour * TicksPerDay) \div 24
    + (t.minute * TicksPerDay) \div 1440
    + (t.second * TicksPerDay) \div 86400

IsLeap(y) == (y % 4 = 0) /\ ((y % 100 # 0) \/ (y % 400 = 0))

\* Days before the first day of month m in a 365-day year.
DaysBeforeMonth(m) ==
    <<0, 31, 59, 90, 120, 151, 181, 212, 243, 273, 304, 334>>[m]

\* Number of days from 0000-01-01 to the date, in the date object's calendar.
DayNumber(cal, t) ==
    CASE cal = "360_day" ->
            t.year * 360 + (t.month - 1) * 30 + (t.day - 1)
      [] cal = "noleap" ->
            t.year * 365 + DaysBeforeMonth(t.month) + (t.day - 1)
      [] OTHER ->
            t.year * 365
            + ((t.year + 3) \div 4) - ((t.year + 99) \div 100)
            + ((t.year + 399) \div 400)
            + DaysBeforeMonth(t.month)
            + (IF IsLeap(t.year) /\ t.month > 2 THEN 1 ELSE 0)
            + (t.day - 1)

\* The instant of a timestamp, in ticks since 0000-01-01 00:00.
Instant(cal, t) == DayNumber(cal, t) * TicksPerDay + DayFraction(t)

\* ------------------------------------------------------------------------
\* Calendar Ordinal Converter (infer_frequency_core, first half)
\* ------------------------------------------------------------------------

\* (t - ref_date).days : whole days of the difference, rounded down.
DeltaDays(cal, t, ref_date) ==
    (Instant(cal, t) - Instant(cal, ref_date)) \div TicksPerDay

\* ref_date.toordinal() of a calendar-aware date: an integer day number
\* (Julian day; the epoch is a constant of the calendar).
ToOrdinal(cal, t) == DayNumber(cal, t) + 1721060

\* t.toordinal() of a standard datetime object (0001-01-01 is day 1).
DatetimeToOrdinal(t) == DayNumber("standard", t) - 365

\* pd.Timestamp(t).to_julian_date(), in ticks (Julian days start at noon).
ToJulianDate(t) ==
    Instant("standard", t) + 1721059 * TicksPerDay + (TicksPerDay \div 2)

\* The ordinal of a calendar-aware date object, relative to the first one.
CftimeOrdinal(cal, t, ref_date) ==
    DeltaDays(cal, t, ref_date) * TicksPerDay + DayFraction(t)
    + ToOrdinal(cal, ref_date) * TicksPerDay

\* The fallback when toordinal is unavailable:
\* year * 365.25 + month * 30.4375 + day + fraction of the day.
FallbackOrdinal(t) ==
    (t.year * 1461 * TicksPerDay) \div 4
    + (t.month * 487 * TicksPerDay) \div 16
    + t.day * TicksPerDay
    + DayFraction(t)

\* The variants of a series: what its elements are.
\*   cftime   : calendar-aware date objects of calendar series.calendar
\*   datetime : standard datetime objects (toordinal, no calendar)
\*   numeric  : numeric instants (numpy.datetime64)
\* series.has_toordinal tells whether toordinal() of the first element works;
\* series.error is None, or the message of the error that converting an
\* element raises (AttributeError, TypeError or ValueError).
ComputeOrdinals(series) ==
    LET tv == series.values
    IN  CASE series.variant = "cftime" /\ series.has_toordinal ->
                [i \in 1..Len(tv) |-> CftimeOrdinal(series.calendar, tv[i], tv[1])]
          [] series.variant = "cftime" /\ ~series.has_toordinal ->
                [i \in 1..Len(tv) |-> FallbackOrdinal(tv[i])]
          [] series.variant = "datetime" ->
                [i \in 1..Len(tv) |->
                    DatetimeToOrdinal(tv[i]) * TicksPerDay + DayFraction(tv[i])]
          [] OTHER ->
                [i \in 1..Len(tv) |-> ToJulianDate(tv[i])]

\* ------------------------------------------------------------------------
\* Frequency Matcher and Regularity Classifier (infer_frequency_core)
\* ------------------------------------------------------------------------

\* A tolerance is the rational num / den.
Tol(n, d) == [num |-> n, den |-> d]

\* tol=0.05, the default of infer_frequency_core.
DefaultTol == Tol(1, 20)

\* relaxed_tol = 0.5
RelaxedTol == Tol(1, 2)

FrequencyResult(frequency, delta_days, step, is_exact, status) ==
    [frequency |-> frequency, delta_days |-> delta_days, step |-> step,
     is_exact |-> is_exact, status |-> status]

\* np.diff(ordinals)
Diff(ords) == [i \in 1..(Len(ords) - 1) |-> ords[i + 1] - ords[i]]

RECURSIVE SumSeq(_)
SumSeq(s) == IF s = <<>> THEN 0 ELSE Head(s) + SumSeq(Tail(s))

\* Twice np.median(deltas): the middle element of the sorted deltas, or the
\* mean of the two middle ones.  (Twice, so that the value is an integer.)
Median2(deltas) ==
    LET sorted == SortSeq(deltas, LAMBDA a, b : a < b)
        n == Len(deltas)
    IN  IF n % 2 = 1
        THEN 2 * sorted[(n + 1) \div 2]
        ELSE sorted[n \div 2] + sorted[(n \div 2) + 1]

\* a / b < c / d for a, c >= 0 and b, d > 0, by continued fractions: exact,
\* and no product is formed.
RECURSIVE FracLess(_, _, _, _)
FracLess(a, b, c, d) ==
    LET qa == a \div b
        qc == c \div d
        ra == a % b
        rc == c % d
    IN  IF qa # qc THEN qa < qc
        ELSE IF rc = 0 THEN FALSE
        ELSE IF ra = 0 THEN TRUE
        ELSE FracLess(d, rc, b, ra)

RECURSIVE GCD(_, _)
GCD(a, b) == IF b = 0 THEN Abs(a) ELSE GCD(b, a % Abs(b))

RECURSIVE GCDSeq(_)
GCDSeq(s) == IF s = <<>> THEN 0 ELSE GCD(Head(s), GCDSeq(Tail(s)))

\* np.std(deltas) < tol * length (np.std is the population deviation), that
\* is sum((n*d_i - S)^2) / n^3 < (tol * length)^2 for the n deltas d_i of sum
\* S.  Computed exactly: a single deviation that already exceeds the bound
\* decides it; otherwise both sides are divided by their common factor.
StdLess(deltas, tol, length) ==
    LET n == Len(deltas)
        S == SumSeq(deltas)
        v == [i \in 1..n |-> n * deltas[i] - S]
        G == GCD(length * n, GCDSeq(v))
        M == (length * n) \div G
        X == SumSeq([i \in 1..n |-> (v[i] \div G) * (v[i] \div G)])
    IN  /\ tol.num > 0
        /\ \A i \in 1..n : Abs(v[i]) * tol.den < tol.num * length * n * n
        /\ FracLess(X, M, tol.num * tol.num * M * n, tol.den * tol.den)

\* year_days: the mean year length of the calendar argument, in ticks.
year_days(calendar) ==
    CASE calendar = "standard" -> (1461 * TicksPerDay) \div 4
      [] calendar = "gregorian" -> (1461 * TicksPerDay) \div 4
      [] calendar = "noleap" -> 365 * TicksPerDay
      [] calendar = "360_day" -> 360 * TicksPerDay
      [] OTHER -> (1461 * TicksPerDay) \div 4

\* The keys of base_freqs, in the order the loops visit them.
Units == <<"H", "D", "W", "M", "Q", "A", "10A">>

\* base_freqs[freq], in ticks.
base_freqs(calendar, freq) ==
    CASE freq = "H" -> TicksPerDay \div 24
      [] freq = "D" -> TicksPerDay
      [] freq = "W" -> 7 * TicksPerDay
      [] freq = "M" -> year_days(calendar) \div 12
      [] freq = "Q" -> year_days(calendar) \div 4
      [] freq = "A" -> year_days(calendar)
      [] freq = "10A" -> year_days(calendar) * 10

\* range(1, 13)
MaxStep == 12

\* Candidates with the units visited from the coarsest to the finest: what
\* NoStepOneOfCoarseUnits excludes.
CandidateUnitCoarsestFirst(k) == Units[Len(Units) - ((k - 1) \div MaxStep)]

\* The k-th candidate of the two nested loops.
CandidateUnit(k) == Units[((k - 1) \div MaxStep) + 1]
CandidateStep(k) == ((k - 1) % MaxStep) + 1

\* abs(median_delta - test_delta) <= tol * test_delta
WithinTol(median2, test_delta, tol) ==
    tol.den * Abs(median2 - 2 * test_delta) <= tol.num * 2 * test_delta

\* The names passed as the calendar argument.
CalendarNames == {"standard", "gregorian", "noleap", "360_day", "julian"}

\* test_delta = base_days * step of every candidate, per calendar argument.
TestDelta ==
    [calendar \in CalendarNames |->
        [k \in 1..(Len(Units) * MaxStep) |->
            base_freqs(calendar, CandidateUnit(k)) * CandidateStep(k)]]

\* Nested loops without the two breaks, which keep the last candidate within
\* tolerance: what FirstCandidateWins excludes.
FirstMatchWithoutBreak(median2, calendar, tol) ==
    LET Hit(k) == WithinTol(median2, TestDelta[calendar][k], tol)
        all == 1..(Len(Units) * MaxStep)
    IN  IF \E k \in all : Hit(k)
        THEN LET k == CHOOSE h \in all :
                          Hit(h) /\ \A j \in (h + 1)..(Len(Units) * MaxStep) : ~Hit(j)
             IN  [freq |-> CandidateUnit(k), step |-> CandidateStep(k)]
        ELSE [freq |-> None, step |-> 0]

\* The nested loops over base_freqs and range(1, 13), left at the first
\* candidate within tolerance: that candidate, or matched_freq = None.
FirstMatch(median2, calendar, tol) ==
    LET Hit(k) == WithinTol(median2, TestDelta[calendar][k], tol)
        all == 1..(Len(Units) * MaxStep)
    IN  IF \E k \in all : Hit(k)
        THEN LET k == CHOOSE h \in all : Hit(h) /\ \A j \in 1..(h - 1) : ~Hit(j)
             IN  [freq |-> CandidateUnit(k), step |-> CandidateStep(k)]
        ELSE [freq |-> None, step |-> 0]

\* A search that tries relaxed_tol before tol: what RelaxedOnlyAfterTol
\* excludes.
MatchFrequencyRelaxedFirst(median2, calendar, tol) ==
    LET first == FirstMatch(median2, calendar, RelaxedTol)
    IN  IF first.freq # None THEN first
        ELSE FirstMatch(median2, calendar, tol)

\* The search of infer_frequency_core: under tol, and only if that finds
\* nothing, under relaxed_tol.
MatchFrequency(median2, calendar, tol) ==
    LET first == FirstMatch(median2, calendar, tol)
    IN  IF first.freq # None THEN first
        ELSE FirstMatch(median2, calendar, RelaxedTol)

\* f"{matched_step}{matched_freq}" if matched_step > 1 else matched_freq
FreqStr(matched_freq, matched_step) ==
    IF matched_step > 1 THEN ToString(matched_step) \o matched_freq ELSE matched_freq

\* not np.all(np.abs(deltas - median_delta) <= tol * median_delta)
SomeDeltaOff(deltas, median2, tol) ==
    \E i \in 1..Len(deltas) :
        tol.den * Abs(2 * deltas[i] - median2) > tol.num * median2

\* abs(expected_steps - actual_steps) >= 1
StepCountOff(ords, length, n_times) ==
    Abs((ords[Len(ords)] - ords[1]) - (n_times - 1) * length) >= length

\* A Classify whose missing_steps branch leaves is_exact as it was: what
\* IsExactIffValid excludes.
ClassifyKeepingExact(ords, deltas, median2, length, tol, strict) ==
    LET exact0 == StdLess(deltas, tol, length)
        off == strict /\ SomeDeltaOff(deltas, median2, tol)
        gap == strict /\ StepCountOff(ords, length, Len(ords))
    IN  [is_exact |-> exact0 /\ ~off,
         status |-> IF gap THEN "missing_steps"
                    ELSE IF off \/ ~exact0 THEN "irregular" ELSE "valid"]

\* A Classify whose per-element check comes after the step-count check, so
\* that irregular overwrites missing_steps: what MissingStepsReported excludes.
ClassifyIrregularLast(ords, deltas, median2, length, tol, strict) ==
    LET exact0 == StdLess(deltas, tol, length)
        off == strict /\ SomeDeltaOff(deltas, median2, tol)
        gap == strict /\ StepCountOff(ords, length, Len(ords))
    IN  [is_exact |-> exact0 /\ ~off /\ ~gap,
         status |-> IF off THEN "irregular"
                    ELSE IF gap THEN "missing_steps"
                    ELSE IF exact0 THEN "valid" ELSE "irregular"]

\* A Classify that makes the two strict checks whatever strict is: what
\* NonStrictByStdOnly excludes.
ClassifyAlwaysStrict(ords, deltas, median2, length, tol, strict) ==
    LET exact0 == StdLess(deltas, tol, length)
        off == SomeDeltaOff(deltas, median2, tol)
        gap == StepCountOff(ords, length, Len(ords))
    IN  [is_exact |-> exact0 /\ ~off /\ ~gap,
         status |-> IF gap THEN "missing_steps"
                    ELSE IF off \/ ~exact0 THEN "irregular" ELSE "valid"]

\* A Classify whose strict mode decides by its own two checks and drops the
\* outcome of the standard deviation test: what StrictOnlyDowngrades
\* excludes.
ClassifyStrictFromScratch(ords, deltas, median2, length, tol, strict) ==
    LET exact0 == StdLess(deltas, tol, length)
        off == SomeDeltaOff(deltas, median2, tol)
        gap == StepCountOff(ords, length, Len(ords))
    IN  IF strict
        THEN [is_exact |-> ~off /\ ~gap,
              status |-> IF gap THEN "missing_steps"
                         ELSE IF off THEN "irregular" ELSE "valid"]
        ELSE [is_exact |-> exact0,
              status |-> IF exact0 THEN "valid" ELSE "irregular"]

\* The classification after a match: [is_exact, status].
Classify(ords, deltas, median2, length, tol, strict) ==
    LET exact0 == StdLess(deltas, tol, length)
        status0 == IF exact0 THEN "valid" ELSE "irregular"
        off == strict /\ SomeDeltaOff(deltas, median2, tol)
        status1 == IF off THEN "irregular" ELSE status0
        exact1 == IF off THEN FALSE ELSE exact0
        gap == strict /\ StepCountOff(ords, length, Len(ords))
    IN  [is_exact |-> IF gap THEN FALSE ELSE exact1,
         status |-> IF gap THEN "missing_steps" ELSE status1]

\* The value of Body at the value of x (x is evaluated once).
Let(x, Body(_)) == CHOOSE y \in {Body(v) : v \in {x}} : TRUE

\* infer_frequency_core after the conversion, with return_metadata=True.
\* delta_days is twice the median delta in ticks (the median may fall between
\* two ticks).
Analyse(ords, n_times, tol, strict, calendar) ==
    Let(Diff(ords), LAMBDA deltas :
    Let(Median2(deltas), LAMBDA median2 :
    Let(MatchFrequency(median2, calendar, tol), LAMBDA matched :
        IF matched.freq = None
        THEN FrequencyResult(None, Number(median2), NoNumber, FALSE, "no_match")
        ELSE Let(base_freqs(calendar, matched.freq) * matched.step, LAMBDA length :
             Let(Classify(ords, deltas, median2, length, tol, strict), LAMBDA c :
                 FrequencyResult(FreqStr(matched.freq, matched.step),
                                 Number(median2), Number(matched.step),
                                 c.is_exact, c.status))))))

\* An InferCore that converts the timestamps before it looks at their number:
\* what TooShort excludes.
InferCoreConvertFirst(series, tol, strict, calendar) ==
    IF series.error # None
    THEN [result |-> FrequencyResult(None, NoNumber, NoNumber, FALSE,
                                     "invalid_input: " \o series.error),
          ordinals |-> <<>>]
    ELSE Let(ComputeOrdinals(series), LAMBDA ords :
             [result |-> IF Len(series.values) < 2
                         THEN FrequencyResult(None, NoNumber, NoNumber, FALSE,
                                              "too_short")
                         ELSE Analyse(ords, Len(series.values), tol, strict, calendar),
              ordinals |-> ords])

\* infer_frequency_core with return_metadata=True.  The result comes with the
\* ordinal array computed on the way (<<>> when the function returns before
\* or during the conversion).
InferCore(series, tol, strict, calendar) ==
    IF Len(series.values) < 2
    THEN [result |-> FrequencyResult(None, NoNumber, NoNumber, FALSE, "too_short"),
          ordinals |-> <<>>]
    ELSE IF series.error # None
    THEN [result |-> FrequencyResult(None, NoNumber, NoNumber, FALSE,
                                     "invalid_input: " \o series.error),
          ordinals |-> <<>>]
    ELSE Let(ComputeOrdinals(series), LAMBDA ords :
             [result |-> Analyse(ords, Len(series.values), tol, strict, calendar),
              ordinals |-> ords])

\* infer_frequency_core: the FrequencyResult, or only its frequency.
infer_frequency_core(series, tol, return_metadata, strict, calendar) ==
    Let(InferCore(series, tol, strict, calendar), LAMBDA r :
        [result |-> IF return_metadata THEN r.result ELSE r.result.frequency,
         ordinals |-> r.ordinals])

\* infer_frequency: xr.infer_freq first (xr_freq is what it returned, None
\* also when it raised), infer_frequency_core with the default tolerance
\* otherwise.
infer_frequency(series, xr_freq, return_metadata, strict, calendar) ==
    IF xr_freq # None
    THEN [result |-> IF return_metadata
                     THEN FrequencyResult(xr_freq, NoNumber, Number(1), TRUE, "valid")
                     ELSE xr_freq,
          ordinals |-> <<>>]
    ELSE infer_frequency_core(series, DefaultTol, return_metadata, strict, calendar)

\* What xr.infer_freq(times) can yield: None (also when it raises, which the
\* wrapper swallows), or, given at least three timestamps, a frequency string
\* of xarray's own.
XrFreqs == {"D", "MS"}
XrInferFreq(series) ==
    {None} \cup (IF Len(series.values) >= 3 THEN XrFreqs ELSE {})

\* ------------------------------------------------------------------------
\* Resampling Safety Gate (pymor.core.infer_freq; described in the
\* specification, section 4.4 and section 3)
\* ------------------------------------------------------------------------

ResolutionCheckResult(is_valid, comparison_status, source, target) ==
    [is_valid_for_resampling |-> is_valid, comparison_status |-> comparison_status,
     source_frequency |-> source, target_interval_days |-> target]

\* The comparison of the source interval with the target interval; delta2 is
\* twice the source's median delta, target and tolerance are in ticks.
CompareIntervals(delta2, target, tolerance) ==
    IF Abs(delta2 - 2 * target) <= 2 * tolerance THEN "equal"
    ELSE IF delta2 < 2 * target THEN "finer"
    ELSE "coarser"

\* A verdict that leaves the source status out of is_valid_for_resampling: what
\* ValidIffFineAndRegular excludes.
GateVerdictIgnoringStatus(source, target, tolerance, strict) ==
    LET comparison ==
            IF strict /\ source.status = "missing_steps" THEN "missing_steps"
            ELSE CompareIntervals(source.delta_days[1], target, tolerance)
    IN  ResolutionCheckResult(comparison \in {"finer", "equal"}, comparison,
                              source, target)

\* A verdict whose comparison_status is always that of the intervals: what
\* MissingStepsForced excludes.
GateVerdictByIntervals(source, target, tolerance, strict) ==
    LET comparison == CompareIntervals(source.delta_days[1], target, tolerance)
        is_valid ==
            /\ comparison \in {"finer", "equal"}
            /\ ~(strict /\ source.status \in {"missing_steps", "irregular"})
    IN  ResolutionCheckResult(is_valid, comparison, source, target)

\* The gate's verdict on an inferred source FrequencyResult that has a median
\* delta (the gate is not described for a source without one).
GateVerdict(source, target, tolerance, strict) ==
    LET comparison ==
            IF strict /\ source.status = "missing_steps" THEN "missing_steps"
            ELSE CompareIntervals(source.delta_days[1], target, tolerance)
        is_valid ==
            /\ comparison \in {"finer", "equal"}
            /\ ~(strict /\ source.status \in {"missing_steps", "irregular"})
    IN  ResolutionCheckResult(is_valid, comparison, source, target)

\* is_resolution_fine_enough(times, target_approx_interval, calendar, strict):
\* infers the source frequency and gives the verdict.
is_resolution_fine_enough(series, target, tolerance, calendar, strict) ==
    Let(infer_frequency(series, None, TRUE, strict, calendar), LAMBDA r :
        [result |-> GateVerdict(r.result, target, tolerance, strict),
         ordinals |-> r.ordinals])

\* The message of the refusal.
TooCoarse == "time resolution too coarse"

\* TimeFrequencyAccessor.resample_safe / DatasetFrequencyAccessor.resample_safe:
\* the gate, then either the refusal or the external resample operation.
\* The outcome is [ret, resampled (calls of the external operation), ordinals].
timefreq_resample_safe(series, target, tolerance, calendar, strict) ==
    Let(is_resolution_fine_enough(series, target, tolerance, calendar, strict),
        LAMBDA g :
            IF g.result.is_valid_for_resampling
            THEN [ret |-> Returned("resampled"), resampled |-> 1,
                  ordinals |-> g.ordinals]
            ELSE [ret |-> Raised(TooCoarse), resampled |-> 0,
                  ordinals |-> g.ordinals])

\* ------------------------------------------------------------------------
\* Unified accessors (accessors.py): PymorDataArrayAccessor and
\* PymorDatasetAccessor hand every call to their specialized accessor
\* ------------------------------------------------------------------------

\* A resample_safe that catches the refusal and returns None: what
\* CoarserRefused excludes.
PymorResampleSafeSwallowing(series, target, tolerance, calendar, strict) ==
    Let(timefreq_resample_safe(series, target, tolerance, calendar, strict),
        LAMBDA out :
            IF out.ret.kind = "raised"
            THEN [out EXCEPT !.ret = Returned(None)]
            ELSE out)

\* PymorDataArrayAccessor.resample_safe / PymorDatasetAccessor.resample_safe.
pymor_resample_safe(series, target, tolerance, calendar, strict) ==
    timefreq_resample_safe(series, target, tolerance, calendar, strict)

\* TimeFrequencyAccessor.check_resolution / DatasetFrequencyAccessor
\* .check_resolution: the gate's verdict on the object's time coordinate.
timefreq_check_resolution(series, target, tolerance, calendar, strict) ==
    Let(is_resolution_fine_enough(series, target, tolerance, calendar, strict),
        LAMBDA g :
            [ret |-> Returned(g.result), resampled |-> 0, ordinals |-> g.ordinals])

\* TimeFrequencyAccessor.infer_frequency / DatasetFrequencyAccessor
\* .infer_frequency: the FrequencyResult of the object's time coordinate.
timefreq_infer_frequency(series, xr_freq, strict, calendar) ==
    Let(infer_frequency(series, xr_freq, TRUE, strict, calendar), LAMBDA r :
        [ret |-> Returned(r.result), resampled |-> 0, ordinals |-> r.ordinals])

\* A check_resolution that does not pass its keyword arguments on, so that
\* the specialized accessor checks with strict at its default: what
\* PymorRefinesTimefreq excludes.
PymorCheckResolutionDroppingKwargs(series, target, tolerance, calendar, strict) ==
    timefreq_check_resolution(series, target, tolerance, calendar, FALSE)

\* PymorDataArrayAccessor.check_resolution / PymorDatasetAccessor
\* .check_resolution.
pymor_check_resolution(series, target, tolerance, calendar, strict) ==
    timefreq_check_resolution(series, target, tolerance, calendar, strict)

\* PymorDataArrayAccessor.infer_frequency / PymorDatasetAccessor
\* .infer_frequency.
pymor_infer_frequency(series, xr_freq, strict, calendar) ==
    timefreq_infer_frequency(series, xr_freq, strict, calendar)

\* ------------------------------------------------------------------------
\* Time Bounds Generator (time_bounds.py) and get_time_label
\* ------------------------------------------------------------------------
\* A dataset is a record
\*   pytype    : "Dataset", "DataArray", or "other" (an object without attrs)
\*   coords    : its coordinates, in order; each has a name, a variant
\*               ("numeric" datetime64, "cftime" or "plain"), its values, its
\*               dims and its attrs
\*   data_vars : the names of its data variables
\*   attrs     : its attributes (time_method, None if absent)
\*   object_cast : whether numpy converts the calendar-aware date objects of
\*               its time coordinate to datetime64 (see CreateBounds)
\* Instants of bounds are in half ticks (twice the ticks).

Attrs(bounds, comment) == [bounds |-> bounds, comment |-> comment]

Coord(name, variant, values, dims, attrs) ==
    [name |-> name, variant |-> variant, values |-> values, dims |-> dims,
     attrs |-> attrs]

SeqToSet(q) == {q[i] : i \in 1..Len(q)}

\* is_datetime_type(arr): arr.item(0) raises IndexError on an empty array.
is_datetime_type(coord) ==
    IF Len(coord.values) = 0 THEN [raised |-> TRUE, value |-> FALSE]
    ELSE [raised |-> FALSE, value |-> coord.variant \in {"numeric", "cftime"}]

\* The loop of get_time_label over ds.coords from position i on: the deque of
\* labels, or the IndexError of is_datetime_type.
RECURSIVE LabelDeque(_, _, _)
LabelDeque(coords, i, label) ==
    IF i > Len(coords) THEN [raised |-> FALSE, label |-> label]
    ELSE LET coord == coords[i]
             dt == is_datetime_type(coord)
         IN  IF dt.raised THEN [raised |-> TRUE, label |-> <<>>]
             ELSE IF ~dt.value THEN LabelDeque(coords, i + 1, label)
             ELSE IF coord.dims = <<>> THEN LabelDeque(coords, i + 1, label)
             ELSE IF coord.name \in SeqToSet(coord.dims)
                  THEN LabelDeque(coords, i + 1, <<coord.name>> \o label)
                  ELSE LabelDeque(coords, i + 1, label \o <<coord.name>>)

\* get_time_label(ds): the first label of the deque, None if there is none.
get_time_label(ds) ==
    LET r == LabelDeque(ds.coords, 1, <<>>)
    IN  IF r.raised THEN [raised |-> TRUE, label |-> None]
        ELSE [raised |-> FALSE, label |-> Head(r.label \o <<None>>)]

\* ds.variables: the names of the coordinates and of the data variables.
Variables(ds) == {ds.coords[i].name : i \in 1..Len(ds.coords)} \cup ds.data_vars

\* ds[name] for a coordinate name.
CoordOf(ds, name) ==
    ds.coords[CHOOSE i \in 1..Len(ds.coords) : ds.coords[i].name = name]

\* Twice the instant of a datetime64 value (standard calendar).
Instant2(t) == 2 * Instant("standard", t)

\* Monthly bounds whose December ends in January of the same year: what
\* MonthAligned excludes.
MonthlyBoundsSameYear(time_values) ==
    [i \in 1..Len(time_values) |->
        LET ts == time_values[i]
        IN  <<Instant2(Date(ts.year, ts.month, 1, 0, 0)),
              Instant2(Date(ts.year, (ts.month % 12) + 1, 1, 0, 0))>>]

\* _create_monthly_bounds: (start of the month, start of the next month).
_create_monthly_bounds(time_values) ==
    [i \in 1..Len(time_values) |->
        LET ts == time_values[i]
            month_start == Date(ts.year, ts.month, 1, 0, 0)
            next_month_start ==
                IF ts.month = 12 THEN Date(ts.year + 1, 1, 1, 0, 0)
                ELSE Date(ts.year, ts.month + 1, 1, 0, 0)
        IN  <<Instant2(month_start), Instant2(next_month_start)>>]

\* np.column_stack([extended[:-1], extended[1:]]) for the instants extended
\* by one point.
ConsecutiveBounds(instants2, extension2) ==
    LET extended == instants2 \o <<extension2>>
    IN  [i \in 1..Len(instants2) |-> <<extended[i], extended[i + 1]>>]

\* int(x) of a number given as twice its value in ticks, in whole days.
IntDays(x2) ==
    IF x2 >= 0 THEN x2 \div (2 * TicksPerDay) ELSE -((-x2) \div (2 * TicksPerDay))

\* A MeanBounds whose fallback extends the series by the whole days of the
\* median, not by the median itself: what MeanConsecutive excludes.
MeanBoundsByDays(time_values, approx_interval) ==
    Let([i \in 1..Len(time_values) |-> Instant2(time_values[i])], LAMBDA instants2 :
    Let(Median2(Diff(instants2)) \div 2, LAMBDA data_freq2 :
        IF /\ approx_interval # NoNumber
           /\ 10 * Abs(data_freq2 - 2 * approx_interval[1]) < 2 * TicksPerDay
           /\ 28 * TicksPerDay <= approx_interval[1]
           /\ approx_interval[1] <= 32 * TicksPerDay
        THEN _create_monthly_bounds(time_values)
        ELSE ConsecutiveBounds(instants2,
                 instants2[Len(instants2)] + IntDays(data_freq2) * 2 * TicksPerDay)))

\* The bounds of the mean method for at least two datetime64 values;
\* approx_interval is an optional number of ticks.
MeanBounds(time_values, approx_interval) ==
    Let([i \in 1..Len(time_values) |-> Instant2(time_values[i])], LAMBDA instants2 :
    Let(Median2(Diff(instants2)) \div 2, LAMBDA data_freq2 :
        IF /\ approx_interval # NoNumber
           /\ 10 * Abs(data_freq2 - 2 * approx_interval[1]) < 2 * TicksPerDay
        THEN IF /\ 28 * TicksPerDay <= approx_interval[1]
                /\ approx_interval[1] <= 32 * TicksPerDay
             THEN _create_monthly_bounds(time_values)
             ELSE ConsecutiveBounds(instants2,
                      instants2[Len(instants2)]
                      + IntDays(data_freq2) * 2 * TicksPerDay)
        ELSE ConsecutiveBounds(instants2, instants2[Len(instants2)] + data_freq2)))

\* ds.assign_coords({time_bounds_label: bounds}) and the bounds attribute of
\* the time variable, set if it has none.
AttachBounds(ds, time_label, time_bounds_label, bounds_data, time_method) ==
    LET bounds == Coord(time_bounds_label, CoordOf(ds, time_label).variant,
                        bounds_data,
                        <<time_label, "bnds">>,
                        Attrs(None, "Generated by pymorize: " \o time_method
                                    \o " time bounds"))
        withattr == [i \in 1..Len(ds.coords) |->
                        IF ds.coords[i].name = time_label
                           /\ ds.coords[i].attrs.bounds = None
                        THEN [ds.coords[i] EXCEPT !.attrs.bounds = time_bounds_label]
                        ELSE ds.coords[i]]
    IN  [ds EXCEPT !.coords = withattr \o <<bounds>>]

\* The time method in force: that of the rule if it has one, else that of the
\* dataset's attributes, else "mean"; an unknown one counts as "mean".
TimeMethodOf(ds, rule) ==
    LET given == IF rule.time_method \notin {None, ""} THEN rule.time_method
                 ELSE IF ds.attrs.time_method # None THEN ds.attrs.time_method
                 ELSE "mean"
    IN  IF given \notin {"mean", "instantaneous", "climatology"} THEN "mean"
        ELSE given

\* np.column_stack([time_values, time_values]).
InstantaneousBounds(time_values) ==
    [i \in 1..Len(time_values) |-> <<time_values[i], time_values[i]>>]

\* A CreateBounds whose mean method gives a single timestep a zero-width
\* pair: what TooFewForMean excludes.
CreateBoundsFromOne(ds, time_label, time_method, approx_interval) ==
    LET time_bounds_label == time_label \o "_" \o "bnds"
        time_var == CoordOf(ds, time_label)
        time_values == time_var.values
    IN  IF Len(time_values) < 1
        THEN Raised("Cannot create time bounds: no time points found")
        ELSE IF time_method = "instantaneous" \/ Len(time_values) < 2
        THEN Returned(AttachBounds(ds, time_label, time_bounds_label,
                 InstantaneousBounds(time_values), time_method))
        ELSE IF time_var.variant # "numeric" /\ ~ds.object_cast
        THEN Raised("Could not convert object to NumPy datetime")
        ELSE Returned(AttachBounds(ds, time_label, time_bounds_label,
                 MeanBounds(time_values, approx_interval), time_method))

\* A CreateBounds that asks for two timesteps under every method: what
\* InstantaneousZeroWidth excludes.
CreateBoundsTwoFirst(ds, time_label, time_method, approx_interval) ==
    LET time_bounds_label == time_label \o "_" \o "bnds"
        time_var == CoordOf(ds, time_label)
        time_values == time_var.values
    IN  IF Len(time_values) < 1
        THEN Raised("Cannot create time bounds: no time points found")
        ELSE IF Len(time_values) < 2
        THEN Raised("Cannot create mean time bounds: need at least 2 time points")
        ELSE IF time_method = "instantaneous"
        THEN Returned(AttachBounds(ds, time_label, time_bounds_label,
                 InstantaneousBounds(time_values), time_method))
        ELSE IF time_var.variant # "numeric" /\ ~ds.object_cast
        THEN Raised("Could not convert object to NumPy datetime")
        ELSE Returned(AttachBounds(ds, time_label, time_bounds_label,
                 MeanBounds(time_values, approx_interval), time_method))

\* time_bounds from the time coordinate on: the bounds of the method, attached
\* to the dataset.  What numpy makes of an array of calendar-aware date
\* objects in the mean branch (it raises, or it reads their fields as a civil
\* date and time) is ds.object_cast.
CreateBounds(ds, time_label, time_method, approx_interval) ==
    LET time_bounds_label == time_label \o "_" \o "bnds"
        time_var == CoordOf(ds, time_label)
        time_values == time_var.values
    IN  IF Len(time_values) < 1
        THEN Raised("Cannot create time bounds: no time points found")
        ELSE IF time_method = "instantaneous"
        THEN Returned(AttachBounds(ds, time_label, time_bounds_label,
                 InstantaneousBounds(time_values), time_method))
        ELSE IF Len(time_values) < 2
        THEN Raised("Cannot create mean time bounds: need at least 2 time points")
        ELSE IF time_var.variant # "numeric" /\ ~ds.object_cast
        THEN Raised("Could not convert object to NumPy datetime")
        ELSE Returned(AttachBounds(ds, time_label, time_bounds_label,
                 MeanBounds(time_values, approx_interval), time_method))

\* time_bounds(ds, rule); rule is [approx_interval, time_method], an absent
\* attribute of the rule being NoNumber or None.  An object without attrs
\* fails at ds.attrs, before the check that the input is a dataset.
time_bounds(ds, rule) ==
    IF ds.pytype = "other" THEN Raised("AttributeError")
    ELSE IF ds.pytype # "Dataset" THEN Raised("The input is not a dataset.")
    ELSE
    Let(get_time_label(ds), LAMBDA tl :
    IF tl.raised THEN Raised("IndexError")
    ELSE IF tl.label = None
    THEN Raised("The dataset does not contain a valid time coordinate.")
    ELSE IF (tl.label \o "_" \o "bnds") \in Variables(ds) THEN Returned(ds)
    ELSE IF TimeMethodOf(ds, rule) = "climatology" THEN Returned(ds)
    ELSE CreateBounds(ds, tl.label, TimeMethodOf(ds, rule), rule.approx_interval))

\* ------------------------------------------------------------------------
\* Inputs
\* ------------------------------------------------------------------------

\* Timestamps the series are drawn from, each list in chronological order.
DailyPool ==
    <<Date(2001, 1, 1, 0, 0), Date(2001, 1, 2, 0, 0), Date(2001, 1, 3, 0, 0),
      Date(2001, 1, 7, 0, 0), Date(2001, 1, 8, 0, 0)>>

SubDailyPool ==
    <<Date(2001, 1, 1, 0, 0), Date(2001, 1, 1, 1, 0), Date(2001, 1, 1, 2, 0),
      Date(2001, 1, 1, 12, 0), Date(2001, 1, 2, 6, 0)>>

WeeklyPool ==
    <<Date(2001, 1, 1, 0, 0), Date(2001, 1, 8, 0, 0), Date(2001, 1, 15, 0, 0),
      Date(2001, 1, 22, 0, 0), Date(2001, 1, 29, 0, 0)>>

ThirteenDayPool ==
    <<Date(2001, 1, 1, 0, 0), Date(2001, 1, 14, 0, 0), Date(2001, 1, 27, 0, 0),
      Date(2001, 2, 9, 0, 0)>>

MonthlyPool ==
    <<Date(2001, 1, 15, 0, 0), Date(2001, 2, 15, 0, 0), Date(2001, 3, 15, 0, 0),
      Date(2001, 4, 15, 0, 0), Date(2001, 5, 15, 0, 0), Date(2001, 7, 15, 0, 0)>>

SparsePool ==
    <<Date(2001, 1, 1, 0, 0), Date(2002, 1, 1, 0, 0), Date(2003, 1, 1, 0, 0),
      Date(2011, 1, 1, 0, 0), Date(2201, 1, 1, 0, 0)>>

\* Deltas of 34 and 37 hours: uneven, each within 5% of their median.
DriftPool ==
    <<Date(2001, 1, 1, 0, 0), Date(2001, 1, 2, 10, 0), Date(2001, 1, 3, 23, 0)>>

Pools ==
    {DailyPool, SubDailyPool, WeeklyPool, ThirteenDayPool, MonthlyPool, SparsePool,
     DriftPool}

\* The elements of pool at the positions in idx, in order.
RECURSIVE Pick(_, _, _)
Pick(pool, idx, from) ==
    IF from > Len(pool) THEN <<>>
    ELSE IF from \in idx THEN <<pool[from]>> \o Pick(pool, idx, from + 1)
    ELSE Pick(pool, idx, from + 1)

\* All strictly increasing series of at most MaxLen timestamps of one pool.
SubSeries(pool) ==
    {Pick(pool, idx, 1) :
        idx \in {i \in SUBSET (1..Len(pool)) : Cardinality(i) <= MaxLen}}

TimeValues == UNION {SubSeries(pool) : pool \in Pools}

\* What the elements of a series are (see ComputeOrdinals).
SeriesKinds ==
    {[variant |-> "cftime", calendar |-> c, has_toordinal |-> TRUE, error |-> None] :
        c \in {"standard", "noleap", "360_day"}}
    \cup {[variant |-> "cftime", calendar |-> "noleap", has_toordinal |-> FALSE,
           error |-> None],
          [variant |-> "datetime", calendar |-> "standard", has_toordinal |-> TRUE,
           error |-> None],
          [variant |-> "numeric", calendar |-> "standard", has_toordinal |-> FALSE,
           error |-> None],
          [variant |-> "numeric", calendar |-> "standard", has_toordinal |-> FALSE,
           error |-> "Cannot convert input"]}

MakeSeries(kind, tv) ==
    [type |-> "times", values |-> tv, variant |-> kind.variant,
     calendar |-> kind.calendar, has_toordinal |-> kind.has_toordinal,
     error |-> kind.error]

TimeSeries == {MakeSeries(kind, tv) : kind \in SeriesKinds, tv \in TimeValues}

\* Time coordinates of datasets, each list in chronological order.
DsDailyPool ==
    <<Date(2001, 1, 1, 0, 0), Date(2001, 1, 2, 0, 0), Date(2001, 1, 3, 0, 0),
      Date(2001, 1, 7, 0, 0)>>

DsSixHourlyPool ==
    <<Date(2001, 1, 1, 0, 0), Date(2001, 1, 1, 6, 0), Date(2001, 1, 1, 12, 0),
      Date(2001, 1, 1, 18, 0)>>

DsMonthlyPool ==
    <<Date(2000, 11, 16, 12, 0), Date(2000, 12, 16, 12, 0),
      Date(2001, 1, 15, 12, 0), Date(2001, 2, 14, 12, 0)>>

DsMonthStartPool ==
    <<Date(2000, 12, 1, 0, 0), Date(2001, 1, 1, 0, 0), Date(2001, 2, 1, 0, 0),
      Date(2001, 3, 1, 0, 0)>>

DsPools == {DsDailyPool, DsSixHourlyPool, DsMonthlyPool, DsMonthStartPool}

DsTimeValues == UNION {SubSeries(pool) : pool \in DsPools}

\* A latitude coordinate, which every dataset of the model has.
LatCoord == Coord("lat", "plain", <<0, 1>>, <<"lat">>, Attrs(None, None))

\* A bounds coordinate that is already there: one pair of datetime64 values
\* (a day apart) for each time value.
ExistingBounds(name, dim, tv) ==
    Coord(name, "numeric",
          [i \in 1..Len(tv) |-> <<Instant2(tv[i]), Instant2(tv[i]) + 2 * TicksPerDay>>],
          <<dim, "bnds">>, Attrs(None, None))

\* Where a variable named time_bnds already is: nowhere, among the data
\* variables, or among the coordinates.
BoundsPlaces == {"absent", "data_var", "coord"}

MakeDataset(pytype, variant, tv, place, bounds_attr, time_method) ==
    [type |-> "dataset", pytype |-> pytype,
     coords |-> <<LatCoord,
                  Coord("time", variant, tv, <<"time">>, Attrs(bounds_attr, None))>>
                \o (IF place = "coord" THEN <<ExistingBounds("time_bnds", "time", tv)>>
                    ELSE <<>>),
     data_vars |-> {"tas"} \cup (IF place = "data_var" THEN {"time_bnds"} ELSE {}),
     attrs |-> [time_method |-> time_method],
     object_cast |-> FALSE]

Datasets ==
    {MakeDataset("Dataset", "numeric", tv, place, bounds_attr, time_method) :
        tv \in DsTimeValues, place \in BoundsPlaces,
        bounds_attr \in {None, "custom_bounds"},
        time_method \in {None, "instantaneous"}}
    \cup {[MakeDataset("Dataset", "cftime", tv, place, None, None)
                EXCEPT !.object_cast = cast] :
            tv \in DsTimeValues, place \in {"absent", "data_var"},
            cast \in BOOLEAN}
    \cup {MakeDataset(pytype, variant, DsDailyPool, place, None, None) :
            pytype \in {"Dataset", "DataArray", "other"},
            variant \in {"numeric", "plain"}, place \in {"absent", "data_var"}}

\* The rules: approx_interval (ticks, NoNumber if the rule has none) and
\* time_method (None if the rule has none).
ApproxIntervals ==
    {NoNumber, Number(TicksPerDay \div 4), Number(TicksPerDay),
     Number(30 * TicksPerDay), Number(31 * TicksPerDay)}

TimeMethods == {None, "mean", "instantaneous", "climatology", "maximum"}

Rules ==
    [approx_interval : ApproxIntervals, time_method : TimeMethods]

\* The calendar argument; "julian" is a name year_days does not list.
Calendars == {"standard", "noleap", "360_day", "julian"}

\* The tolerances passed as tol.
Tols == {DefaultTol}

\* ------------------------------------------------------------------------
\* Operations
\* ------------------------------------------------------------------------

Init ==
    /\ obj \in TimeSeries \cup Datasets
    /\ call = [op |-> "none"]
    /\ ret = Returned(None)
    /\ ordinals = <<>>
    /\ resampled = 0

\* A call of infer_frequency_core(times, tol, return_metadata, strict, calendar).
CallInferCore ==
    /\ call.op = "none"
    /\ obj.type = "times"
    /\ \E tol \in Tols, return_metadata \in BOOLEAN, strict \in BOOLEAN,
          calendar \in Calendars :
          \E r \in {infer_frequency_core(obj, tol, return_metadata, strict, calendar)} :
              /\ call' = [op |-> "infer_frequency_core", tol |-> tol,
                          return_metadata |-> return_metadata, strict |-> strict,
                          calendar |-> calendar]
              /\ ret' = Returned(r.result)
              /\ ordinals' = r.ordinals
              /\ UNCHANGED <<obj, resampled>>

\* A call of infer_frequency(times, return_metadata, strict, calendar); what
\* xr.infer_freq makes of the timestamps is an input.
CallInferFrequency ==
    /\ call.op = "none"
    /\ obj.type = "times"
    /\ \E xr_freq \in XrInferFreq(obj), return_metadata \in BOOLEAN,
          strict \in BOOLEAN, calendar \in Calendars :
          \E r \in {infer_frequency(obj, xr_freq, return_metadata, strict, calendar)} :
              /\ call' = [op |-> "infer_frequency", xr_freq |-> xr_freq,
                          tol |-> DefaultTol,
                          return_metadata |-> return_metadata, strict |-> strict,
                          calendar |-> calendar]
              /\ ret' = Returned(r.result)
              /\ ordinals' = r.ordinals
              /\ UNCHANGED <<obj, resampled>>

\* The target intervals (ticks): 1 day, 30 days, 30.4375 days, 30.5 days.
Targets ==
    {TicksPerDay, 30 * TicksPerDay, (487 * TicksPerDay) \div 16,
     (61 * TicksPerDay) \div 2}

\* The tolerances of the interval comparison (ticks).
GateTolerances == {0, TicksPerDay \div 2}

\* The series the gate is described for: those whose inference has a delta.
HasDelta(series) == Len(series.values) >= 2 /\ series.error = None

\* The series the gate and the accessors are exercised on: calendar-aware
\* date objects.
GateSeries(series) ==
    HasDelta(series) /\ series.variant = "cftime" /\ series.has_toordinal

\* The calendar argument used with a series.
CalendarOf(series) == series.calendar

\* A call of is_resolution_fine_enough.
CallIsResolutionFineEnough ==
    /\ call.op = "none"
    /\ obj.type = "times"
    /\ GateSeries(obj)
    /\ \E target \in Targets, tolerance \in GateTolerances, strict \in BOOLEAN :
          \E g \in {is_resolution_fine_enough(obj, target, tolerance,
                                              CalendarOf(obj), strict)} :
              /\ call' = [op |-> "is_resolution_fine_enough", target |-> target,
                          tolerance |-> tolerance, strict |-> strict,
                          calendar |-> CalendarOf(obj)]
              /\ ret' = Returned(g.result)
              /\ ordinals' = g.ordinals
              /\ UNCHANGED <<obj, resampled>>

\* A call of TimeFrequencyAccessor.resample_safe on the object.
TimefreqResampleSafe ==
    /\ call.op = "none"
    /\ obj.type = "times"
    /\ GateSeries(obj)
    /\ \E target \in Targets, tolerance \in GateTolerances, strict \in BOOLEAN :
          \E out \in {timefreq_resample_safe(obj, target, tolerance,
                                             CalendarOf(obj), strict)} :
              /\ call' = [op |-> "timefreq.resample_safe", target |-> target,
                          tolerance |-> tolerance, strict |-> strict,
                          calendar |-> CalendarOf(obj), input |-> obj]
              /\ ret' = out.ret
              /\ ordinals' = out.ordinals
              /\ resampled' = resampled + out.resampled
              /\ UNCHANGED obj

\* A call of PymorDataArrayAccessor.resample_safe on the object.
PymorResampleSafe ==
    /\ call.op = "none"
    /\ obj.type = "times"
    /\ GateSeries(obj)
    /\ \E target \in Targets, tolerance \in GateTolerances, strict \in BOOLEAN :
          \E out \in {pymor_resample_safe(obj, target, tolerance,
                                          CalendarOf(obj), strict)} :
              /\ call' = [op |-> "pymor.resample_safe", target |-> target,
                          tolerance |-> tolerance, strict |-> strict,
                          calendar |-> CalendarOf(obj), input |-> obj]
              /\ ret' = out.ret
              /\ ordinals' = out.ordinals
              /\ resampled' = resampled + out.resampled
              /\ UNCHANGED obj

\* A call of TimeFrequencyAccessor.check_resolution on the object.
TimefreqCheckResolution ==
    /\ call.op = "none"
    /\ obj.type = "times"
    /\ GateSeries(obj)
    /\ \E target \in Targets, tolerance \in GateTolerances, strict \in BOOLEAN :
          \E out \in {timefreq_check_resolution(obj, target, tolerance,
                                                CalendarOf(obj), strict)} :
              /\ call' = [op |-> "timefreq.check_resolution", target |-> target,
                          tolerance |-> tolerance, strict |-> strict,
                          calendar |-> CalendarOf(obj), input |-> obj]
              /\ ret' = out.ret
              /\ ordinals' = out.ordinals
              /\ UNCHANGED <<obj, resampled>>

\* A call of PymorDataArrayAccessor.check_resolution on the object.
PymorCheckResolution ==
    /\ call.op = "none"
    /\ obj.type = "times"
    /\ GateSeries(obj)
    /\ \E target \in Targets, tolerance \in GateTolerances, strict \in BOOLEAN :
          \E out \in {pymor_check_resolution(obj, target, tolerance,
                                             CalendarOf(obj), strict)} :
              /\ call' = [op |-> "pymor.check_resolution", target |-> target,
                          tolerance |-> tolerance, strict |-> strict,
                          calendar |-> CalendarOf(obj), input |-> obj]
              /\ ret' = out.ret
              /\ ordinals' = out.ordinals
              /\ UNCHANGED <<obj, resampled>>

\* A call of TimeFrequencyAccessor.infer_frequency on the object.
TimefreqInferFrequency ==
    /\ call.op = "none"
    /\ obj.type = "times"
    /\ GateSeries(obj)
    /\ \E xr_freq \in XrInferFreq(obj), strict \in BOOLEAN :
          \E out \in {timefreq_infer_frequency(obj, xr_freq, strict,
                                               CalendarOf(obj))} :
              /\ call' = [op |-> "timefreq.infer_frequency", xr_freq |-> xr_freq,
                          strict |-> strict, calendar |-> CalendarOf(obj),
                          input |-> obj]
              /\ ret' = out.ret
              /\ ordinals' = out.ordinals
              /\ UNCHANGED <<obj, resampled>>

\* A call of PymorDataArrayAccessor.infer_frequency on the object.
PymorInferFrequency ==
    /\ call.op = "none"
    /\ obj.type = "times"
    /\ GateSeries(obj)
    /\ \E xr_freq \in XrInferFreq(obj), strict \in BOOLEAN :
          \E out \in {pymor_infer_frequency(obj, xr_freq, strict,
                                            CalendarOf(obj))} :
              /\ call' = [op |-> "pymor.infer_frequency", xr_freq |-> xr_freq,
                          strict |-> strict, calendar |-> CalendarOf(obj),
                          input |-> obj]
              /\ ret' = out.ret
              /\ ordinals' = out.ordinals
              /\ UNCHANGED <<obj, resampled>>

\* A call of time_bounds(ds, rule). The dataset passed in is left as it was:
\* the bounds go to the dataset that assign_coords returns.
CallTimeBounds ==
    /\ call.op = "none"
    /\ obj.type = "dataset"
    /\ \E rule \in Rules :
          /\ call' = [op |-> "time_bounds", rule |-> rule, input |-> obj]
          /\ ret' = time_bounds(obj, rule)
          /\ UNCHANGED <<obj, ordinals, resampled>>

\* time_bounds applied, with the same rule, to the dataset it returned.
CallTimeBoundsAgain ==
    /\ call.op = "time_bounds"
    /\ ret.kind = "returned"
    /\ call' = [op |-> "time_bounds_again", rule |-> call.rule, input |-> ret.value]
    /\ ret' = time_bounds(ret.value, call.rule)
    /\ UNCHANGED <<obj, ordinals, resampled>>

NextInfer ==
    \/ CallInferCore
    \/ CallInferFrequency

NextGate ==
    \/ CallIsResolutionFineEnough
    \/ TimefreqResampleSafe
    \/ PymorResampleSafe
    \/ TimefreqCheckResolution
    \/ PymorCheckResolution
    \/ TimefreqInferFrequency
    \/ PymorInferFrequency

NextBounds ==
    \/ CallTimeBounds
    \/ CallTimeBoundsAgain

Next ==
    \/ NextInfer
    \/ NextGate
    \/ NextBounds

Spec == Init /\ [][Next]_vars

\* The operations of dataset_helpers.py alone.
SpecInfer == Init /\ [][NextInfer]_vars

\* The gate and the accessors alone.
SpecGate == Init /\ [][NextGate]_vars

\* The time bounds generator alone.
SpecBounds == Init /\ [][NextBounds]_vars

\* ------------------------------------------------------------------------
\* Properties
\* ------------------------------------------------------------------------

\* The last call was a frequency inference.
InferenceCall == call.op \in {"infer_frequency_core", "infer_frequency"}

\* The last call was a frequency inference that returned a FrequencyResult.
MetadataCall == InferenceCall /\ call.return_metadata

\* The last call was a frequency inference that got past the conversion.
Analysed == InferenceCall /\ Len(ordinals) >= 2

\* The (unit, step) the matcher finds for the ordinals of the last call.
MatchedNow == MatchFrequency(Median2(Diff(ordinals)), call.calendar, call.tol)

\* base_days * step of that match.
MatchedLength == base_freqs(call.calendar, MatchedNow.freq) * MatchedNow.step

\* C1: every FrequencyResult returned by infer_frequency_core or by
\* infer_frequency with return_metadata=True, on whichever path, has is_exact
\* true if and only if its status is "valid".
IsExactIffValid ==
    MetadataCall => (ret.value.is_exact <=> (ret.value.status = "valid"))

\* C1, its case: a strict result whose deltas pass the standard deviation test
\* and whose step count is off (is_exact was true, then reset).
IsExactIffValidCase ==
    /\ MetadataCall /\ call.strict /\ Analysed
    /\ MatchedNow.freq # None
    /\ StdLess(Diff(ordinals), call.tol, MatchedLength)
    /\ ret.value.status = "missing_steps"
    /\ ~ret.value.is_exact

\* A series in which each timestamp is the same day and time of day of the
\* calendar month after the one before it.
IsMonthly(tv) ==
    \A i \in 1..(Len(tv) - 1) :
        /\ tv[i + 1].year * 12 + tv[i + 1].month = tv[i].year * 12 + tv[i].month + 1
        /\ tv[i + 1].day = tv[i].day
        /\ DayFraction(tv[i + 1]) = DayFraction(tv[i])

\* C2: for a monthly series of at least two calendar-aware dates of the
\* standard, no-leap or 360-day calendar, inference (default strict=False,
\* calendar of the dates) returns frequency "M", status valid, is_exact true.
MonthlyIsM ==
    (/\ call.op = "infer_frequency_core" /\ call.return_metadata /\ ~call.strict
     /\ obj.variant = "cftime" /\ obj.has_toordinal
     /\ obj.calendar \in {"standard", "noleap", "360_day"}
     /\ call.calendar = obj.calendar
     /\ Len(obj.values) >= 2 /\ IsMonthly(obj.values))
    => /\ ret.value.frequency = "M"
       /\ ret.value.status = "valid"
       /\ ret.value.is_exact

\* C3: the ordinal array is strictly increasing whenever the timestamps are
\* (every series of the model is strictly increasing), for calendar-aware
\* date objects and for numeric instants.
OrdinalsStrictlyIncreasing ==
    (Analysed /\ obj.variant \in {"cftime", "numeric"})
    => \A i \in 1..(Len(ordinals) - 1) : ordinals[i] < ordinals[i + 1]

\* C4: in strict mode, a match whose step count is off by one or more gives
\* status missing_steps and is_exact false and keeps the matched frequency
\* and step, also when the per-element check fires; days 1, 2, 3, 7, 8 give
\* frequency D, step 1, missing_steps.
MissingStepsReported ==
    /\ (/\ Analysed /\ call.return_metadata /\ call.strict
        /\ MatchedNow.freq # None
        /\ StepCountOff(ordinals, MatchedLength, Len(obj.values)))
       => /\ ret.value.status = "missing_steps"
          /\ ~ret.value.is_exact
          /\ ret.value.frequency = FreqStr(MatchedNow.freq, MatchedNow.step)
          /\ ret.value.step = Number(MatchedNow.step)
    /\ (/\ Analysed /\ call.return_metadata /\ call.strict
        /\ obj.values = DailyPool)
       => /\ ret.value.status = "missing_steps"
          /\ ~ret.value.is_exact
          /\ ret.value.frequency = "D"
          /\ ret.value.step = Number(1)

\* C4, its case: days 1, 2, 3, 7, 8 in strict mode, where the per-element
\* check fires as well.
MissingStepsReportedCase ==
    /\ Analysed /\ call.return_metadata /\ call.strict
    /\ obj.values = DailyPool
    /\ SomeDeltaOff(Diff(ordinals), Median2(Diff(ordinals)), call.tol)
    /\ StepCountOff(ordinals, MatchedLength, Len(obj.values))
    /\ ret.value.status = "missing_steps"
    /\ ret.value.frequency = "D"

\* C5: with strict=False a result with a matched frequency has status valid
\* or irregular, never missing_steps, and which of the two is decided by
\* std_delta < tol * (base_days * step) alone.
NonStrictByStdOnly ==
    (/\ Analysed /\ call.return_metadata /\ ~call.strict
     /\ MatchedNow.freq # None)
    => /\ ret.value.status \in {"valid", "irregular"}
       /\ (ret.value.status = "valid")
            <=> StdLess(Diff(ordinals), call.tol, MatchedLength)

\* C5, its case: days 1, 2, 3, 7, 8 with strict=False are irregular although
\* their step count is off.
NonStrictByStdOnlyCase ==
    /\ Analysed /\ call.return_metadata /\ ~call.strict
    /\ obj.values = DailyPool
    /\ StepCountOff(ordinals, MatchedLength, Len(obj.values))
    /\ ret.value.status = "irregular"
    /\ ret.value.frequency = "D"

\* C6: fewer than two timestamps give None in scalar mode and
\* FrequencyResult(None, None, None, False, "too_short") in metadata mode, as
\* a returned value, with no conversion made, whatever tol, strict and
\* calendar are.
TooShort ==
    (InferenceCall /\ Len(obj.values) < 2)
    => /\ ret.kind = "returned"
       /\ IF call.return_metadata
          THEN ret.value = FrequencyResult(None, NoNumber, NoNumber, FALSE, "too_short")
          ELSE ret.value = None
       /\ ordinals = <<>>

\* C6, its case: one timestamp that cannot be converted, in metadata mode.
TooShortCase ==
    /\ MetadataCall
    /\ Len(obj.values) = 1
    /\ obj.error # None
    /\ ret.value.status = "too_short"

\* C7: is_valid_for_resampling is true exactly when comparison_status is finer
\* or equal and, in strict mode, the source status is neither missing_steps
\* nor irregular.
ValidIffFineAndRegular ==
    (call.op = "is_resolution_fine_enough")
    => (ret.value.is_valid_for_resampling
          <=> /\ ret.value.comparison_status \in {"finer", "equal"}
              /\ (call.strict =>
                    ret.value.source_frequency.status
                        \notin {"missing_steps", "irregular"}))

\* C7, its case: a strict check of an irregular source whose interval is fine
\* enough.
ValidIffFineAndRegularCase ==
    /\ call.op = "is_resolution_fine_enough"
    /\ call.strict
    /\ ret.value.source_frequency.status = "irregular"
    /\ ret.value.comparison_status \in {"finer", "equal"}
    /\ ~ret.value.is_valid_for_resampling

\* The last call was resample_safe, of either accessor.
ResampleSafeCall == call.op \in {"timefreq.resample_safe", "pymor.resample_safe"}

\* The gate's verdict for the last resample_safe call.
VerdictNow ==
    is_resolution_fine_enough(obj, call.target, call.tolerance, call.calendar,
                              call.strict).result

\* C8: when the gate's verdict is coarser, resample_safe raises an error whose
\* message has the phrase "time resolution too coarse", and the external
\* resample operation is not invoked.
CoarserRefused ==
    (ResampleSafeCall /\ VerdictNow.comparison_status = "coarser")
    => /\ ret.kind = "raised"
       /\ ret.message = "time resolution too coarse"
       /\ resampled = 0

\* C8, its case: the unified accessor refusing a source coarser than the
\* target.
CoarserRefusedCase ==
    /\ call.op = "pymor.resample_safe"
    /\ VerdictNow.comparison_status = "coarser"
    /\ ret.kind = "raised"
    /\ resampled = 0

\* C9: a source with status missing_steps checked in strict mode has
\* comparison_status missing_steps and is not valid for resampling, whatever
\* the relation of the source interval to the target interval.
MissingStepsForced ==
    (/\ call.op = "is_resolution_fine_enough" /\ call.strict
     /\ ret.value.source_frequency.status = "missing_steps")
    => /\ ret.value.comparison_status = "missing_steps"
       /\ ~ret.value.is_valid_for_resampling

\* C9, its case: a strict check of a source with missing steps whose interval
\* is finer than the target.
MissingStepsForcedCase ==
    /\ call.op = "is_resolution_fine_enough" /\ call.strict
    /\ ret.value.source_frequency.status = "missing_steps"
    /\ CompareIntervals(ret.value.source_frequency.delta_days[1], call.target,
                        call.tolerance) = "finer"
    /\ ~ret.value.is_valid_for_resampling

\* The dataset has a datetime dimension coordinate and a variable named after
\* it with the suffix _bnds.
HasTimeBounds(ds) ==
    /\ ds.pytype = "Dataset"
    /\ \E i \in 1..Len(ds.coords) :
          /\ ds.coords[i].variant \in {"numeric", "cftime"}
          /\ ds.coords[i].name \in SeqToSet(ds.coords[i].dims)
          /\ (ds.coords[i].name \o "_bnds") \in Variables(ds)

\* C10: a dataset that already has the variable {time_label}_bnds is returned
\* unchanged, without error, for every time_method, approx_interval and number
\* of timesteps; and time_bounds applied to its own output returns it
\* unchanged.
ExistingBoundsKept ==
    /\ (call.op \in {"time_bounds", "time_bounds_again"} /\ HasTimeBounds(call.input))
       => (ret.kind = "returned" /\ ret.value = call.input)
    /\ (call.op = "time_bounds_again")
       => (ret.kind = "returned" /\ ret.value = call.input)

\* The last call was time_bounds on a Dataset whose time coordinate is of a
\* datetime type and which has no variable time_bnds, with the given time
\* method in force.  (The time coordinate of the model's datasets is "time".)
Creating(time_method) ==
    /\ call.op = "time_bounds"
    /\ call.input.pytype = "Dataset"
    /\ CoordOf(call.input, "time").variant \in {"numeric", "cftime"}
    /\ "time_bnds" \notin Variables(call.input)
    /\ TimeMethodOf(call.input, call.rule) = time_method

\* The time values of the input of the last call, and they as instants.
InputTimes == CoordOf(call.input, "time").values
InputInstants2 == [i \in 1..Len(InputTimes) |-> Instant2(InputTimes[i])]

\* The median of the consecutive deltas of the input's time values (half
\* ticks).
InputMedian2 == Median2(Diff(InputInstants2)) \div 2

\* The rule of the last call declares an interval that matches the median
\* within 0.1 days.
IntervalMatches ==
    /\ call.rule.approx_interval # NoNumber
    /\ 10 * Abs(InputMedian2 - 2 * call.rule.approx_interval[1]) < 2 * TicksPerDay

\* The bounds coordinate of the dataset the last call returned.
OutputBounds == CoordOf(ret.value, "time_bnds").values

IsMonthStarts(tv) ==
    /\ IsMonthly(tv)
    /\ \A i \in 1..Len(tv) : tv[i].day = 1 /\ DayFraction(tv[i]) = 0

\* C12: for two or more month-start datetime64 values under the mean method
\* with no declared interval, each timestep's bounds, the last one's included,
\* are (start of its month, start of the next month).
MonthStartBounds ==
    (/\ Creating("mean")
     /\ CoordOf(call.input, "time").variant = "numeric"
     /\ call.rule.approx_interval = NoNumber
     /\ Len(InputTimes) >= 2
     /\ IsMonthStarts(InputTimes))
    => /\ ret.kind = "returned"
       /\ OutputBounds = _create_monthly_bounds(InputTimes)

\* The names of the coordinates of a dataset.
CoordNames(ds) == {ds.coords[i].name : i \in 1..Len(ds.coords)}

\* C13: whenever time_bounds creates bounds (instantaneous or mean method),
\* the returned dataset has a coordinate time_bnds with dimensions
\* (time, bnds) and shape (n, 2), and the bounds attribute of the time
\* coordinate is "time_bnds", whatever attributes it had on input.
BoundsAttached ==
    ((Creating("mean") \/ Creating("instantaneous")) /\ ret.kind = "returned")
    => /\ "time_bnds" \in CoordNames(ret.value)
       /\ CoordOf(ret.value, "time_bnds").dims = <<"time", "bnds">>
       /\ Len(OutputBounds) = Len(InputTimes)
       /\ \A i \in 1..Len(OutputBounds) : Len(OutputBounds[i]) = 2
       /\ CoordOf(ret.value, "time").attrs.bounds = "time_bnds"

TooFewForMean ==
    (/\ call.op = "time_bounds"
     /\ call.input.pytype = "Dataset"
     /\ "time_bnds" \notin Variables(call.input)
     /\ TimeMethodOf(call.input, call.rule) = "mean"
     /\ Len(InputTimes) < 2)
    => ret.kind = "raised"

\* C15, its case: one timestep and no time method in the rule or in the
\* dataset's attributes.
TooFewForMeanCase ==
    /\ Creating("mean")
    /\ call.rule.time_method = None
    /\ call.input.attrs.time_method = None
    /\ Len(InputTimes) = 1
    /\ ret.kind = "raised"
    /\ ret.message = "Cannot create mean time bounds: need at least 2 time points"

\* C16: time_bounds raises "The input is not a dataset" for every input that
\* is not a Dataset, and raises for a Dataset without a coordinate of a
\* datetime type; no other outcome occurs for such inputs.
StructuralChecksFirst ==
    /\ (call.op = "time_bounds" /\ call.input.pytype # "Dataset")
       => (ret.kind = "raised" /\ ret.message = "The input is not a dataset.")
    /\ (/\ call.op = "time_bounds" /\ call.input.pytype = "Dataset"
        /\ \A i \in 1..Len(call.input.coords) :
              call.input.coords[i].variant = "plain")
       => ret.kind = "raised"

\* C17: under the instantaneous method the bounds pair of every timestep t is
\* (t, t), for one or more timesteps and whatever approx_interval is.
InstantaneousZeroWidth ==
    (Creating("instantaneous") /\ Len(InputTimes) >= 1)
    => /\ ret.kind = "returned"
       /\ Len(OutputBounds) = Len(InputTimes)
       /\ \A i \in 1..Len(InputTimes) :
             OutputBounds[i] = <<InputTimes[i], InputTimes[i]>>

\* C17, its case: a single timestep, with a declared interval of one day.
InstantaneousZeroWidthCase ==
    /\ Creating("instantaneous")
    /\ Len(InputTimes) = 1
    /\ call.rule.approx_interval = Number(TicksPerDay)
    /\ ret.kind = "returned"
    /\ OutputBounds = <<<<InputTimes[1], InputTimes[1]>>>>

\* C18: under the climatology method time_bounds returns the dataset
\* unchanged, without error, for any number of timesteps (0 and 1 included).
ClimatologyPassThrough ==
    (/\ call.op = "time_bounds"
     /\ call.input.pytype = "Dataset"
     /\ CoordOf(call.input, "time").variant \in {"numeric", "cftime"}
     /\ TimeMethodOf(call.input, call.rule) = "climatology")
    => (ret.kind = "returned" /\ ret.value = call.input)

\* C19: the status of every FrequencyResult is one of too_short,
\* invalid_input, no_match, valid, irregular, missing_steps, on every path.
StatusIsOneOfSix ==
    MetadataCall
    => ret.value.status \in {"too_short", "invalid_input", "no_match", "valid",
                             "irregular", "missing_steps"}

\* C20: every FrequencyResult with a frequency has a step in 1..12 and a
\* frequency string that is the unit code alone when the step is 1 and the
\* decimal step followed by the unit code otherwise, the unit code being one
\* of H, D, W, M, Q, A, 10A; for infer_frequency_core and infer_frequency
\* alike.
FrequencyStringWellFormed ==
    (MetadataCall /\ ret.value.frequency # None)
    => /\ ret.value.step # NoNumber
       /\ ret.value.step[1] \in 1..12
       /\ \E u \in {"H", "D", "W", "M", "Q", "A", "10A"} :
             ret.value.frequency =
                IF ret.value.step[1] = 1 THEN u
                ELSE ToString(ret.value.step[1]) \o u

\* The last call went through the unified pymor accessor.
PymorCall ==
    call.op \in {"pymor.resample_safe", "pymor.check_resolution",
                 "pymor.infer_frequency"}

\* C21: for each of resample_safe, check_resolution and infer_frequency, the
\* unified pymor accessor returns or raises exactly what the specialized
\* time-frequency accessor built on the same object returns or raises for
\* the same arguments (and invokes the external resample operation as
\* often), and the object the accessor was built on is as it was before the
\* call.
PymorRefinesTimefreq ==
    /\ (call.op = "pymor.resample_safe")
       => /\ ret = timefreq_resample_safe(obj, call.target, call.tolerance,
                                          call.calendar, call.strict).ret
          /\ resampled = timefreq_resample_safe(obj, call.target, call.tolerance,
                                                call.calendar, call.strict).resampled
    /\ (call.op = "pymor.check_resolution")
       => ret = timefreq_check_resolution(obj, call.target, call.tolerance,
                                          call.calendar, call.strict).ret
    /\ (call.op = "pymor.infer_frequency")
       => ret = timefreq_infer_frequency(obj, call.xr_freq, call.strict,
                                         call.calendar).ret
    /\ PymorCall => obj = call.input

\* C21, its case: a strict check_resolution through the unified accessor on a
\* source whose status the strict mode turns into a refusal.
PymorRefinesTimefreqCase ==
    /\ call.op = "pymor.check_resolution"
    /\ call.strict
    /\ ret.kind = "returned"
    /\ ret.value.source_frequency.status \in {"missing_steps", "irregular"}
    /\ ret.value.comparison_status # "coarser"
    /\ ~ret.value.is_valid_for_resampling

\* The last call was infer_frequency_core with return_metadata=True and got
\* past the conversion.
CoreAnalysed ==
    call.op = "infer_frequency_core" /\ call.return_metadata /\ Len(ordinals) >= 2

\* The candidates, numbered in the order H, D, W, M, Q, A, 10A with steps 1..12
\* ascending within each unit, whose length base*step is within tol of the
\* median delta of the last call.
HitsUnder(tol) ==
    {k \in 1..(7 * 12) :
        tol.den * Abs(Median2(Diff(ordinals)) - 2 * TestDelta[call.calendar][k])
            <= tol.num * 2 * TestDelta[call.calendar][k]}

\* The least element of a nonempty set of numbers.
Least(S) == CHOOSE k \in S : \A j \in S : k <= j

\* C22: infer_frequency_core returns the first (unit, step) pair, in the order
\* H, D, W, M, Q, A, 10A with steps 1..12 ascending within each unit, that
\* satisfies |median_delta - base*step| <= tol*base*step; a later pair is
\* returned only if no earlier pair satisfies the test.
FirstCandidateWins ==
    (CoreAnalysed /\ HitsUnder(call.tol) # {})
    => /\ ret.value.step = Number(CandidateStep(Least(HitsUnder(call.tol))))
       /\ ret.value.frequency =
             FreqStr(CandidateUnit(Least(HitsUnder(call.tol))),
                     CandidateStep(Least(HitsUnder(call.tol))))

\* C22, its case: a spacing of seven days, which both (D, 7) and (W, 1)
\* satisfy, returned as step 7 of unit D.
FirstCandidateWinsCase ==
    /\ CoreAnalysed
    /\ Cardinality(HitsUnder(call.tol)) >= 2
    /\ ret.value.frequency = "7D"
    /\ ret.value.step = Number(7)

\* The frequency string and the step of candidate k.
ReportsCandidate(k) ==
    /\ ret.value.step = Number(CandidateStep(k))
    /\ ret.value.frequency = FreqStr(CandidateUnit(k), CandidateStep(k))

\* C23: the relaxed search (tolerance 0.5) decides the result only if no
\* candidate matches under tol, and then returns the first candidate within
\* 0.5 in the same unit and step order; the result no_match, with frequency
\* none, is returned (never raised) exactly when no candidate matches under
\* either tolerance.
RelaxedOnlyAfterTol ==
    CoreAnalysed
    => /\ ret.kind = "returned"
       /\ (HitsUnder(call.tol) # {})
          => ReportsCandidate(Least(HitsUnder(call.tol)))
       /\ (HitsUnder(call.tol) = {} /\ HitsUnder(RelaxedTol) # {})
          => ReportsCandidate(Least(HitsUnder(RelaxedTol)))
       /\ (ret.value.status = "no_match")
          <=> (HitsUnder(call.tol) = {} /\ HitsUnder(RelaxedTol) = {})
       /\ (ret.value.status = "no_match") => (ret.value.frequency = None)

\* C23, its case: a median delta that a candidate matches under tol while an
\* earlier candidate matches under 0.5, reported as the candidate under tol.
RelaxedOnlyAfterTolCase ==
    /\ CoreAnalysed
    /\ HitsUnder(call.tol) # {}
    /\ Least(HitsUnder(RelaxedTol)) < Least(HitsUnder(call.tol))
    /\ ReportsCandidate(Least(HitsUnder(call.tol)))

\* C23, the relaxed search deciding: no candidate within tol, one within 0.5.
RelaxedSearchDecides ==
    /\ CoreAnalysed
    /\ HitsUnder(call.tol) = {}
    /\ HitsUnder(RelaxedTol) # {}
    /\ ReportsCandidate(Least(HitsUnder(RelaxedTol)))

\* C23, no candidate under either tolerance.
NoMatchReturned ==
    /\ CoreAnalysed
    /\ ret.value.status = "no_match"
    /\ HitsUnder(RelaxedTol) = {}

\* The rule of the last call declares an interval outside [28, 32] days.
IntervalNotMonthly ==
    \/ call.rule.approx_interval[1] < 28 * TicksPerDay
    \/ call.rule.approx_interval[1] > 32 * TicksPerDay

\* C24: under the mean method, when a declared interval matches the median
\* delta within 0.1 days and lies outside [28, 32], bounds[i] = (t_i, t_{i+1})
\* for i < n and bounds[n] = (t_n, t_n + median delta), so that every pair,
\* the last included, has upper > lower, for sub-daily spacing too.
DeclaredIntervalConsecutive ==
    (/\ Creating("mean") /\ Len(InputTimes) >= 2
     /\ IntervalMatches /\ IntervalNotMonthly
     /\ ret.kind = "returned")
    => LET n == Len(InputTimes)
           t == InputInstants2
       IN  /\ Len(OutputBounds) = n
           /\ \A i \in 1..(n - 1) : OutputBounds[i] = <<t[i], t[i + 1]>>
           /\ OutputBounds[n] = <<t[n], t[n] + InputMedian2>>
           /\ \A i \in 1..n : OutputBounds[i][2] > OutputBounds[i][1]

\* C25: in strict mode, status missing_steps is returned only for a series
\* with at least one gap, that is, at least one consecutive delta larger than
\* the median delta; a series whose consecutive deltas are all equal is never
\* classified missing_steps.
MissingStepsOnlyWithGap ==
    (/\ Analysed /\ call.return_metadata /\ call.strict
     /\ ret.value.status = "missing_steps")
    => \E i \in 1..Len(Diff(ordinals)) :
           2 * Diff(ordinals)[i] > Median2(Diff(ordinals))

\* C26: a frequency that matches only under the relaxed tolerance 0.5 is
\* never reported with status valid or is_exact true; every valid result
\* of infer_frequency_core satisfies
\* |delta_days - base*step| <= tol*base*step for its reported unit and step.
ValidOnlyWithinTol ==
    (CoreAnalysed /\ (ret.value.status = "valid" \/ ret.value.is_exact))
    => \E k \in HitsUnder(call.tol) : ReportsCandidate(k)

\* The FrequencyResult of infer_frequency_core for the timestamps, tol and
\* calendar of the last call, with strict=False.
NonStrictResult == InferCore(obj, call.tol, FALSE, call.calendar).result

\* C27: for the same timestamps, tol and calendar, strict=True returns the
\* frequency, step and delta_days that strict=False returns; the status is the
\* same, or changes from valid to irregular or missing_steps, or from
\* irregular to missing_steps; a result that is irregular without strict is
\* never valid with it.
StrictOnlyDowngrades ==
    (call.op = "infer_frequency_core" /\ call.return_metadata /\ call.strict)
    => /\ ret.value.frequency = NonStrictResult.frequency
       /\ ret.value.step = NonStrictResult.step
       /\ ret.value.delta_days = NonStrictResult.delta_days
       /\ \/ ret.value.status = NonStrictResult.status
          \/ /\ NonStrictResult.status = "valid"
             /\ ret.value.status \in {"irregular", "missing_steps"}
          \/ /\ NonStrictResult.status = "irregular"
             /\ ret.value.status = "missing_steps"

\* C27, its case: a series that fails the standard deviation test while the
\* two strict checks do not fire, irregular with and without strict.
StrictOnlyDowngradesCase ==
    /\ CoreAnalysed /\ call.strict
    /\ MatchedNow.freq # None
    /\ ~StdLess(Diff(ordinals), call.tol, MatchedLength)
    /\ ~SomeDeltaOff(Diff(ordinals), Median2(Diff(ordinals)), call.tol)
    /\ ~StepCountOff(ordinals, MatchedLength, Len(obj.values))
    /\ NonStrictResult.status = "irregular"
    /\ ret.value.status = "irregular"

\* C27, a status that strict mode changes: valid without strict, irregular
\* with it.
StrictDowngradesValid ==
    /\ CoreAnalysed /\ call.strict
    /\ NonStrictResult.status = "valid"
    /\ ret.value.status = "irregular"
    /\ ret.value.frequency = NonStrictResult.frequency

\* The median delta of the last call lies between lo and hi days.
MedianDaysIn(lo, hi) ==
    /\ 2 * lo * TicksPerDay <= Median2(Diff(ordinals))
    /\ Median2(Diff(ordinals)) <= 2 * hi * TicksPerDay

\* The last call reported this frequency string and step.
Reports(frequency, step) ==
    ret.value.frequency = frequency /\ ret.value.step = Number(step)

\* C28: no result of infer_frequency_core has step 1 with unit W, Q, A or 10A,
\* under either tolerance: D*7, M*3, M*12 and A*10 have the same length and
\* come earlier, so a weekly spacing is reported as "7D" with step 7, a
\* quarterly one (89 to 92 days) as "3M", a yearly one (360 to 366 days) as
\* "12M", and a ten-yearly one (3600 to 3653 days) as "10A" with step 10.
NoStepOneOfCoarseUnits ==
    CoreAnalysed
    => /\ (ret.value.step = Number(1))
          => ret.value.frequency \notin {"W", "Q", "A", "10A"}
       /\ MedianDaysIn(7, 7) => Reports("7D", 7)
       /\ MedianDaysIn(89, 92) => Reports("3M", 3)
       /\ MedianDaysIn(360, 366) => Reports("12M", 12)
       /\ MedianDaysIn(3600, 3653) => Reports("10A", 10)

\* C28, its case: a ten-yearly spacing reported as "10A" with step 10.
NoStepOneOfCoarseUnitsCase ==
    /\ CoreAnalysed
    /\ MedianDaysIn(3600, 3653)
    /\ Reports("10A", 10)

\* C28, the other spacings it names.
QuarterlyAsThreeMonths == CoreAnalysed /\ MedianDaysIn(89, 92) /\ Reports("3M", 3)
YearlyAsTwelveMonths == CoreAnalysed /\ MedianDaysIn(360, 366) /\ Reports("12M", 12)
WeeklyAsSevenDays == CoreAnalysed /\ MedianDaysIn(7, 7) /\ Reports("7D", 7)

====
